---- MODULE Spec2Model ----
(***************************************************************************)
(* TrackPal/Sources/MultitouchSupport.h: the declarations that bind to the *)
(* private MultitouchSupport framework.  The header holds three record     *)
(* types, two callback typedefs and a list of function prototypes; it has  *)
(* no function body.  The framework behind the prototypes is closed        *)
(* source: every value it produces is an unconstrained choice over the     *)
(* values of the declared type, and it may call back at any time.          *)
(***************************************************************************)
EXTENDS Integers, Sequences, FiniteSets, TLC

\* ------------------------------------------------------------- bounds
NumDevices == 2   \* distinct MTDeviceRef handles a caller holds
MaxValue == 1     \* opaque integers (mode, refcon, ids, frame, ...) are 0..MaxValue
MaxTouches == 3   \* numTouches of one frame is 0..MaxTouches

Devices == 1..NumDevices
Values == 0..MaxValue

\* ------------------------------------------------- the declared surface

\* A list that leaves out MTRegisterContactFrameCallbackWithRefcon.
FunctionsMissingRefcon ==
    << "MTDeviceCreateList", "MTRegisterContactFrameCallback",
       "MTUnregisterContactFrameCallback",
       "MTDeviceStart", "MTDeviceStop", "MTDeviceIsRunning",
       "MTDeviceGetDeviceID", "MTDeviceGetFamilyID", "MTDeviceIsBuiltIn",
       "MTDeviceGetSensorSurfaceDimensions" >>

\* Lines 42-52: the names of the declared functions, in the header's order.
FunctionList ==
    << "MTDeviceCreateList", "MTRegisterContactFrameCallback",
       "MTUnregisterContactFrameCallback",
       "MTRegisterContactFrameCallbackWithRefcon",
       "MTDeviceStart", "MTDeviceStop", "MTDeviceIsRunning",
       "MTDeviceGetDeviceID", "MTDeviceGetFamilyID", "MTDeviceIsBuiltIn",
       "MTDeviceGetSensorSurfaceDimensions" >>

Functions == { FunctionList[i] : i \in 1..Len(FunctionList) }

\* Lines 38-39: the two callback typedefs and their parameter types (the
\* count parameter keeps its name: it ranges over array lengths).
CallbackShape(name) ==
    CASE name = "MTContactCallbackFunction" ->
           << "MTDeviceRef", "MTTouch *", "int numTouches", "double", "int" >>
      [] name = "MTContactCallbackFunctionWithRefcon" ->
           << "MTDeviceRef", "MTTouch *", "int numTouches", "double", "int",
              "void *" >>

CallbackShapes ==
    { "MTContactCallbackFunction", "MTContactCallbackFunctionWithRefcon" }

\* A table in which MTDeviceStart reports a status.
ReturnTypeStartHasStatus(fn) ==
    CASE fn = "MTDeviceCreateList" -> "CFArrayRef _Nullable"
      [] fn = "MTDeviceStart" -> "OSStatus"
      [] fn = "MTDeviceGetSensorSurfaceDimensions" -> "OSStatus"
      [] fn \in {"MTDeviceIsRunning", "MTDeviceIsBuiltIn"} -> "bool"
      [] fn \in {"MTDeviceGetDeviceID", "MTDeviceGetFamilyID"} -> "int"
      [] OTHER -> "void"

\* The return type each prototype declares.
ReturnType(fn) ==
    CASE fn = "MTDeviceCreateList" -> "CFArrayRef _Nullable"
      [] fn = "MTRegisterContactFrameCallback" -> "void"
      [] fn = "MTUnregisterContactFrameCallback" -> "void"
      [] fn = "MTRegisterContactFrameCallbackWithRefcon" -> "void"
      [] fn = "MTDeviceStart" -> "void"
      [] fn = "MTDeviceStop" -> "void"
      [] fn = "MTDeviceIsRunning" -> "bool"
      [] fn = "MTDeviceGetDeviceID" -> "int"
      [] fn = "MTDeviceGetFamilyID" -> "int"
      [] fn = "MTDeviceIsBuiltIn" -> "bool"
      [] fn = "MTDeviceGetSensorSurfaceDimensions" -> "OSStatus"

\* The parameter types each prototype declares.
ParamTypes(fn) ==
    CASE fn = "MTDeviceCreateList" -> << >>
      [] fn = "MTRegisterContactFrameCallback" ->
           << "MTDeviceRef", "MTContactCallbackFunction" >>
      [] fn = "MTUnregisterContactFrameCallback" ->
           << "MTDeviceRef", "MTContactCallbackFunction" >>
      [] fn = "MTRegisterContactFrameCallbackWithRefcon" ->
           << "MTDeviceRef", "MTContactCallbackFunctionWithRefcon", "void *" >>
      [] fn = "MTDeviceStart" -> << "MTDeviceRef", "int" >>
      [] fn = "MTDeviceStop" -> << "MTDeviceRef" >>
      [] fn = "MTDeviceIsRunning" -> << "MTDeviceRef" >>
      [] fn = "MTDeviceGetDeviceID" -> << "MTDeviceRef" >>
      [] fn = "MTDeviceGetFamilyID" -> << "MTDeviceRef" >>
      [] fn = "MTDeviceIsBuiltIn" -> << "MTDeviceRef" >>
      [] fn = "MTDeviceGetSensorSurfaceDimensions" ->
           << "MTDeviceRef", "int *", "int *" >>

\* The values an argument of a declared parameter type takes in the model.
ArgValues(type) ==
    CASE type = "MTDeviceRef" -> Devices
      [] type \in CallbackShapes -> {1}
      [] type = "MTTouch *" -> {1}
      [] type = "int *" -> {1}
      [] type = "int numTouches" -> 0..MaxTouches
      [] OTHER -> Values

\* All argument tuples for a parameter-type list.
RECURSIVE ArgTuples(_)
ArgTuples(types) ==
    IF types = << >> THEN { << >> }
    ELSE { <<a>> \o rest : a \in ArgValues(Head(types)),
                           rest \in ArgTuples(Tail(types)) }

\* A result as the callee produces it: num carries a bool, an int or an
\* OSStatus, absent marks a null pointer, list the handles of a device
\* list, out what was written through the int * parameters.
Result(type, absent, num, list, out) ==
    [type |-> type, absent |-> absent, num |-> num, list |-> list, out |-> out]

RECURSIVE DeviceLists(_)
DeviceLists(n) ==
    IF n = 0 THEN { << >> }
    ELSE DeviceLists(n - 1)
         \cup { <<d>> \o l : d \in Devices,
                l \in { x \in DeviceLists(n - 1) : Len(x) = n - 1 } }

\* Every result the closed-source framework can hand back for a declared
\* return type; which one it picks is not decided by the header.
ReturnValues(type) ==
    CASE type = "void" -> { Result(type, FALSE, 0, << >>, << >>) }
      [] type = "bool" -> { Result(type, FALSE, b, << >>, << >>) : b \in {0, 1} }
      [] type = "int" -> { Result(type, FALSE, v, << >>, << >>) : v \in Values }
      [] type = "OSStatus" ->
           { Result(type, FALSE, s, << >>, <<w, h>>) :
               s \in {0, -1}, w \in Values, h \in Values }
      [] type = "CFArrayRef _Nullable" ->
           { Result(type, TRUE, 0, << >>, << >>) }
           \cup { Result(type, FALSE, 0, l, << >>) : l \in DeviceLists(NumDevices) }

\* A call through a prototype: the arguments reach the callee as the
\* caller passed them (the header declares, it does not wrap).

PassArguments(fn, args) == args

\* The caller sees the value the callee returned.
PassResult(fn, res) == res

\* ------------------------------------------------- the record types

\* The records with majorAxis and minorAxis of MTTouch exchanged.
FieldsTouchReordered(T) ==
    CASE T = "MTPoint" ->
           << [name |-> "x", type |-> "float"], [name |-> "y", type |-> "float"] >>
      [] T = "MTVector" ->
           << [name |-> "position", type |-> "MTPoint"],
              [name |-> "velocity", type |-> "MTPoint"] >>
      [] T = "MTTouch" ->
           << [name |-> "frame", type |-> "int"],
              [name |-> "timestamp", type |-> "double"],
              [name |-> "identifier", type |-> "int"],
              [name |-> "state", type |-> "int"],
              [name |-> "fingerId", type |-> "int"],
              [name |-> "handId", type |-> "int"],
              [name |-> "normalized", type |-> "MTVector"],
              [name |-> "size", type |-> "float"],
              [name |-> "zero1", type |-> "int"],
              [name |-> "angle", type |-> "float"],
              [name |-> "minorAxis", type |-> "float"],
              [name |-> "majorAxis", type |-> "float"],
              [name |-> "absoluteVector", type |-> "MTVector"],
              [name |-> "zero2", type |-> "int"],
              [name |-> "zero3", type |-> "int"],
              [name |-> "density", type |-> "float"] >>

\* Lines 9-36: the fields of each typedef'd struct, in declaration order.
Fields(T) ==
    CASE T = "MTPoint" ->
           << [name |-> "x", type |-> "float"], [name |-> "y", type |-> "float"] >>
      [] T = "MTVector" ->
           << [name |-> "position", type |-> "MTPoint"],
              [name |-> "velocity", type |-> "MTPoint"] >>
      [] T = "MTTouch" ->
           << [name |-> "frame", type |-> "int"],
              [name |-> "timestamp", type |-> "double"],
              [name |-> "identifier", type |-> "int"],
              [name |-> "state", type |-> "int"],
              [name |-> "fingerId", type |-> "int"],
              [name |-> "handId", type |-> "int"],
              [name |-> "normalized", type |-> "MTVector"],
              [name |-> "size", type |-> "float"],
              [name |-> "zero1", type |-> "int"],
              [name |-> "angle", type |-> "float"],
              [name |-> "majorAxis", type |-> "float"],
              [name |-> "minorAxis", type |-> "float"],
              [name |-> "absoluteVector", type |-> "MTVector"],
              [name |-> "zero2", type |-> "int"],
              [name |-> "zero3", type |-> "int"],
              [name |-> "density", type |-> "float"] >>

RecordTypes == { "MTPoint", "MTVector", "MTTouch" }

IsScalar(t) == t \in { "int", "float", "double" }

\* Size in bytes, which is also the alignment, of the scalar types the
\* structs use, on the 64-bit macOS targets (x86_64, arm64) the header is
\* compiled for.
ScalarSize(t) ==
    CASE t = "int" -> 4
      [] t = "float" -> 4
      [] t = "double" -> 8

AlignUp(n, a) == ((n + a - 1) \div a) * a

\* The C layout of a struct: each field at the next offset aligned for its
\* type, the struct aligned as its most aligned field and padded to a
\* multiple of that.
RECURSIVE SizeOf(_), AlignOf(_), OffsetsFrom(_, _, _), EndFrom(_, _, _),
          MaxAlign(_, _)

MaxAlign(fs, k) ==
    IF k > Len(fs) THEN 1
    ELSE LET a == AlignOf(fs[k].type)
             m == MaxAlign(fs, k + 1)
         IN  IF a > m THEN a ELSE m

AlignOf(t) == IF IsScalar(t) THEN ScalarSize(t) ELSE MaxAlign(Fields(t), 1)

OffsetsFrom(fs, k, cur) ==
    IF k > Len(fs) THEN << >>
    ELSE LET o == AlignUp(cur, AlignOf(fs[k].type))
         IN  <<o>> \o OffsetsFrom(fs, k + 1, o + SizeOf(fs[k].type))

EndFrom(fs, k, cur) ==
    IF k > Len(fs) THEN cur
    ELSE EndFrom(fs, k + 1, AlignUp(cur, AlignOf(fs[k].type)) + SizeOf(fs[k].type))

SizeOf(t) ==
    IF IsScalar(t) THEN ScalarSize(t)
    ELSE AlignUp(EndFrom(Fields(t), 1, 0), AlignOf(t))

Offsets(T) == OffsetsFrom(Fields(T), 1, 0)

OffsetOf(T, k) == Offsets(T)[k]

FieldNames(T) == [k \in 1..Len(Fields(T)) |-> Fields(T)[k].name]

\* ------------------------------------------------------------- state

\* last: the most recent crossing of the boundary, a call of a declared
\*       function or a callback from the framework.
\* rd:   a walk over an array of n records of one declared type, as the
\*       receiver of "T *p, int n" addresses p[i].field: i and f say where
\*       the walk is, addr and size what it addresses (bytes from p), prev
\*       the end of the field addressed before.
VARIABLES last, rd

vars == << last, rd >>

NoResult == Result("void", FALSE, 0, << >>, << >>)

NoEvent ==
    [kind |-> "none", fn |-> "", ord |-> 0, passed |-> << >>,
     received |-> << >>, produced |-> NoResult, observed |-> NoResult]

NoRead ==
    [type |-> "MTTouch", n |-> 0, i |-> 0, f |-> 0, addr |-> 0, size |-> 0,
     prev |-> 0]

Init ==
    /\ last = NoEvent
    /\ rd = NoRead

\* The place of a function in the header's list of prototypes.
Ordinal(fn) ==
    IF \E k \in 1..Len(FunctionList) : FunctionList[k] = fn
    THEN CHOOSE k \in 1..Len(FunctionList) : FunctionList[k] = fn
    ELSE 0

\* One call of a declared function by the application.
Invoke(fn) ==
    \E args \in ArgTuples(ParamTypes(fn)) :
      \E res \in ReturnValues(ReturnType(fn)) :
        /\ last' = [kind |-> "call", fn |-> fn, ord |-> Ordinal(fn),
                    passed |-> args,
                    received |-> PassArguments(fn, args),
                    produced |-> res,
                    observed |-> PassResult(fn, res)]
        /\ UNCHANGED rd

MTDeviceCreateList == Invoke("MTDeviceCreateList")
MTRegisterContactFrameCallback == Invoke("MTRegisterContactFrameCallback")
MTUnregisterContactFrameCallback == Invoke("MTUnregisterContactFrameCallback")
MTRegisterContactFrameCallbackWithRefcon ==
    Invoke("MTRegisterContactFrameCallbackWithRefcon")
MTDeviceStart == Invoke("MTDeviceStart")
MTDeviceStop == Invoke("MTDeviceStop")
MTDeviceIsRunning == Invoke("MTDeviceIsRunning")
MTDeviceGetDeviceID == Invoke("MTDeviceGetDeviceID")
MTDeviceGetFamilyID == Invoke("MTDeviceGetFamilyID")
MTDeviceIsBuiltIn == Invoke("MTDeviceIsBuiltIn")
MTDeviceGetSensorSurfaceDimensions == Invoke("MTDeviceGetSensorSurfaceDimensions")

\* The framework calls a function of one of the two callback types; when
\* it does so, and with what, is the framework's business.
Callback(shape) ==
    \E args \in ArgTuples(CallbackShape(shape)) :
        /\ last' = [kind |-> "callback", fn |-> shape, ord |-> 0,
                    passed |-> args, received |-> args,
                    produced |-> NoResult, observed |-> NoResult]
        /\ UNCHANGED rd

MTContactCallbackFunction == Callback("MTContactCallbackFunction")
MTContactCallbackFunctionWithRefcon ==
    Callback("MTContactCallbackFunctionWithRefcon")

Next ==
    \/ MTDeviceCreateList
    \/ MTRegisterContactFrameCallback
    \/ MTUnregisterContactFrameCallback
    \/ MTRegisterContactFrameCallbackWithRefcon
    \/ MTDeviceStart
    \/ MTDeviceStop
    \/ MTDeviceIsRunning
    \/ MTDeviceGetDeviceID
    \/ MTDeviceGetFamilyID
    \/ MTDeviceIsBuiltIn
    \/ MTDeviceGetSensorSurfaceDimensions
    \/ MTContactCallbackFunction
    \/ MTContactCallbackFunctionWithRefcon

Spec == Init /\ [][Next]_vars

\* ------------------------------------------- addressing the records

\* An array of 1..MaxTouches records of any of the declared types.
InitLayout ==
    /\ last = NoEvent
    /\ \E T \in RecordTypes, n \in 1..MaxTouches :
         rd = [type |-> T, n |-> n, i |-> 0, f |-> 0, addr |-> 0, size |-> 0,
               prev |-> 0]

\* p[i].field for the next field of the current element.
ReadField ==
    /\ rd.f < Len(Fields(rd.type))
    /\ rd' = [rd EXCEPT !.f = rd.f + 1,
                        !.addr = rd.i * SizeOf(rd.type)
                                 + OffsetOf(rd.type, rd.f + 1),
                        !.size = SizeOf(Fields(rd.type)[rd.f + 1].type),
                        !.prev = rd.addr + rd.size]
    /\ UNCHANGED last

\* On to p[i + 1].
NextElement ==
    /\ rd.f = Len(Fields(rd.type))
    /\ rd.i + 1 < rd.n
    /\ rd' = [rd EXCEPT !.i = rd.i + 1, !.f = 0]
    /\ UNCHANGED last

NextLayout == ReadField \/ NextElement

SpecLayout == InitLayout /\ [][NextLayout]_vars

\* ------------------------------------------------------------ claims

FailureTypes == { "CFArrayRef _Nullable", "OSStatus" }

FailureFunctions ==
    { "MTDeviceCreateList", "MTDeviceGetSensorSurfaceDimensions" }

ReportsFailure(res) ==
    res.absent \/ (res.type = "OSStatus" /\ res.num # 0)

\* C7: every call through a declared prototype hands the callee the
\* caller's arguments unchanged and hands the caller the callee's result
\* unchanged, of the declared return type; only MTDeviceCreateList (an
\* absent list) and MTDeviceGetSensorSurfaceDimensions (a status) declare a
\* result that can report failure, and MTDeviceStart and MTDeviceStop
\* return nothing.
C7_ZeroAddedBehaviour ==
    /\ \A fn \in Functions :
         (ReturnType(fn) \in FailureTypes) <=> (fn \in FailureFunctions)
    /\ last.kind = "call" =>
         /\ last.received = last.passed
         /\ last.observed = last.produced
         /\ last.observed.type = ReturnType(last.fn)
         /\ Len(last.received) = Len(ParamTypes(last.fn))
         /\ ReportsFailure(last.observed) => last.fn \in FailureFunctions
         /\ last.fn \in { "MTDeviceStart", "MTDeviceStop" } =>
              last.observed = NoResult

\* C7, witness: the surface-dimensions query failed in the framework and
\* the caller holds that very status.
C7_Witness ==
    /\ last.kind = "call"
    /\ last.fn = "MTDeviceGetSensorSurfaceDimensions"
    /\ last.produced.num = -1
    /\ last.observed.num = -1
    /\ last.received[1] = 2

\* C9 as amended: the header declares two callback types and eleven
\* functions; every call is to one of the eleven and every callback is of
\* one of the two types.
C9_ElevenFunctions ==
    /\ Len(FunctionList) = 11
    /\ Cardinality(Functions) = 11
    /\ Cardinality(CallbackShapes) = 2
    /\ last.kind = "call" =>
         /\ last.fn \in Functions
         /\ last.ord \in 1..11
         /\ FunctionList[last.ord] = last.fn
    /\ last.kind = "callback" => last.fn \in CallbackShapes

\* C9, witness: the eleventh declared function has been called.
C9_Witness ==
    /\ last.kind = "call"
    /\ last.ord = 11
    /\ last.fn = "MTDeviceGetSensorSurfaceDimensions"

\* C9 as the specification words it: the declared functions are nine, so
\* whatever is called is one of nine.
C9_NineFunctions ==
    last.kind = "call" => (Cardinality(Functions) = 9 /\ last.ord <= 9)

TouchFieldOrder ==
    << "frame", "timestamp", "identifier", "state", "fingerId", "handId",
       "normalized", "size", "zero1", "angle", "majorAxis", "minorAxis",
       "absoluteVector", "zero2", "zero3", "density" >>

\* Field k + 1 of T starts at or after the end of field k.
InDeclaredOrder(T) ==
    \A k \in 1..(Len(Fields(T)) - 1) :
        OffsetOf(T, k) + SizeOf(Fields(T)[k].type) <= OffsetOf(T, k + 1)

\* C8: a point is two 32-bit floats, x then y; a vector is a position
\* point followed by a velocity point; a touch has its sixteen fields in
\* the order frame ... density, each after the one declared before it; and
\* a walk over an array of records meets the fields at increasing
\* addresses inside the array.
C8_RecordLayout ==
    /\ Fields("MTPoint") =
         << [name |-> "x", type |-> "float"], [name |-> "y", type |-> "float"] >>
    /\ 8 * SizeOf("float") = 32
    /\ Offsets("MTPoint") = << 0, SizeOf("float") >>
    /\ SizeOf("MTPoint") = 2 * SizeOf("float")
    /\ Fields("MTVector") =
         << [name |-> "position", type |-> "MTPoint"],
            [name |-> "velocity", type |-> "MTPoint"] >>
    /\ Offsets("MTVector") = << 0, SizeOf("MTPoint") >>
    /\ SizeOf("MTVector") = 2 * SizeOf("MTPoint")
    /\ FieldNames("MTTouch") = TouchFieldOrder
    /\ \A T \in RecordTypes : InDeclaredOrder(T)
    /\ rd.f >= 1 =>
         /\ rd.prev <= rd.addr
         /\ rd.i * SizeOf(rd.type) <= rd.addr
         /\ rd.addr + rd.size <= (rd.i + 1) * SizeOf(rd.type)
         /\ rd.addr + rd.size <= rd.n * SizeOf(rd.type)

\* C8, witness: the walk addresses majorAxis of the second touch of a
\* frame, 60 bytes into the 96-byte record.
C8_Witness ==
    /\ rd.type = "MTTouch"
    /\ rd.i = 1
    /\ rd.f = 11
    /\ Fields("MTTouch")[rd.f].name = "majorAxis"
    /\ rd.addr = 96 + 60
    /\ rd.size = 4

====
